---- MODULE Spec2Model ----
(***************************************************************************)
(* Model of the IPC transport (ipc.Processor) and of the Barcelona         *)
(* subprocess supervisor (MacNoSIPConnector) of mautrix-imessage.          *)
(*                                                                         *)
(* Spec         : request correlation of one Processor (callers, replies). *)
(* SpecDispatch : dispatch of inbound commands (handlers, unknown ones).   *)
(* SpecPanic    : requests next to handler goroutines.                     *)
(* SpecWrite    : all writers of the outbound stream.                      *)
(* SpecMac      : the subprocess supervisor (Start, pingLoop, Stop).       *)
(* SpecWS       : the reconnect supervisor (startWebsocket, internalStop,  *)
(*                PingServer).                                             *)
(***************************************************************************)
EXTENDS Integers, Sequences, FiniteSets, TLC

\* ------------------------------------------------------------- bounds
NumCallers == 2
NumBusy == 1
MaxCmdId == 1
MaxHandlers == 1
MaxStops == 2
MaxStreak == 8

\* ---------------------------------------------------------- constants
MaxInt32 == 2147483647
StopPingerCap == 8
\* The reconnect constants, as seconds (the code compares nanoseconds)
defaultReconnectBackoff == 2
maxReconnectBackoff == 120
reconnectBackoffReset == 300

Callers == 1..NumCallers
\* ids the peer may put in a reply envelope: 0, every id Request can have
\* allocated within the bound, and one that is never allocated
ReplyIds == 0..(NumCallers + 1)
CmdIds == 0..MaxCmdId
Slots == 1..MaxHandlers

None == [none |-> TRUE]
Free == <<"free", 0>>

CommandResponse == "response"
CommandError == "error"
IncomingLog == "log"
\* a command nobody registers a handler for
UnknownCmd == "bogus"
InboundCommands == {IncomingLog, UnknownCmd}

VARIABLES
  reqID,      \* Processor.reqID
  waiters,    \* Processor.waiters: id -> reply channel (named by its caller)
  handlers,   \* Processor.handlers: the registered commands
  lock,       \* Processor.lock: Free or the writer holding it
  encoding,   \* the writers inside stdout.Encode
  loopPc,     \* Processor.Loop: "read", "respond", "encode", "done", ...
  loopFrame,  \* the frame the loop's respond call is writing
  pc,         \* per caller: position in Request / RequestWait
  rid,        \* per caller: the reqID local of its Request call
  chan,       \* per caller: buffer of respChan (capacity 1)
  closed,     \* per caller: respChan was closed
  got,        \* per caller: the message RequestWait received
  hs,         \* per handler goroutine: position in callHandler / respond
  dropped,    \* history: the loop has dropped a reply that had no waiter
  macPc,      \* MacNoSIPConnector.Start: "init", "created", "started", ...
  proc,       \* mac.proc: "nil" or "set"
  procState,  \* mac.proc.ProcessState: "nil", "exited", "signaled"
  child,      \* the child process: "none", "running", "exited", "signaled"
  macHandlers, \* the handlers of the connector's own Processor
  readLoop,   \* the goroutine of Start running ipcProc.Loop
  logUnknown, \* history: a "log" envelope was answered "unknown command"
  pingPc,     \* pingLoop: "none", "send", "wait", "sleep", "stopped"
  stopPinger, \* number of values buffered in mac.stopPinger
  host,       \* the bridge process: "up", "exit253", ..., "panic"
  sigterms,   \* SIGTERMs sent by Stop
  killTimers, \* forced-kill timers armed by Stop
  stops,      \* Stop calls that have returned
  lastStop,   \* what the last Stop call did: "none", "noop", "full"
  wsPc,       \* startWebsocket: "loop", "dialing", "connected", "check1", ...
  reconnectBackoff, \* the local reconnectBackoff, in seconds
  waited,     \* seconds spent in the last backoff wait
  dialTime,   \* seconds the current attempt took to connect or to fail
  sessionLen, \* seconds the current session has been connected
  shortCircuited, \* history: the last backoff wait was short-circuited
  streak,     \* history: disconnects so far, none of them after a reset
  prevBackoff, \* history: reconnectBackoff before the last disconnect
  lastErr,    \* what the last StartWebsocket call returned
  wsStopErr,  \* the error a StopWebsocket call has closed the session with
  stopping,   \* br.stopping
  brStop,     \* number of values buffered in br.stop (capacity 1)
  websocketStopped, \* br.websocketStopped was closed
  isPc,       \* internalStop: "idle", "stopws", "shortcircuit", ...
  psPc,       \* PingServer: "idle", "await", "request"
  psResult,   \* how the last PingServer call ended
  wgDone,     \* wgOnce.Do(wg.Done) has run: Start can return
  wgCount,    \* number of wg.Done calls made by onConnect
  bridgeStateCap, \* br.IM.Capabilities().BridgeState
  latestState, \* br.latestState: "nil" or the stored status
  lastPassed, \* history: the last status passed to SendBridgeStatus
  statusSent, \* the status the last onConnect sent, "nothing" if none
  pgPc,       \* serverPinger: "none", "select", "ping", "returned"
  pingsAfterFlag \* history: PingServer calls the pinger began while stopping

ipcVars == <<reqID, waiters, handlers, lock, encoding, loopPc, loopFrame,
             pc, rid, chan, closed, got, hs, dropped>>
macVars == <<macPc, proc, procState, child, macHandlers, readLoop, logUnknown,
             pingPc, stopPinger, host, sigterms, killTimers, stops, lastStop>>
statusVars == <<wgCount, bridgeStateCap, latestState, lastPassed, statusSent>>
pgVars == <<pgPc, pingsAfterFlag>>
brVars == <<wsPc, reconnectBackoff, waited, dialTime, sessionLen,
            shortCircuited, streak, prevBackoff, lastErr, wsStopErr, stopping,
            brStop, websocketStopped, isPc, psPc, psResult, wgDone,
            statusVars, pgVars>>
vars == <<ipcVars, macVars, brVars>>

\* ------------------------------------------------------------ helpers
Writer(kind, n) == <<kind, n>>
LoopWriter == Writer("loop", 0)

Frame(cmd, id, why) == [command |-> cmd, id |-> id, why |-> why]

Remove(f, k) == [i \in DOMAIN f \ {k} |-> f[i]]

\* Mutant: the counter is read, not incremented
NextReqIDLoad(r) == r

\* atomic.AddInt32(&ipc.reqID, 1): 32-bit two's complement
NextReqID(r) == IF r = MaxInt32 THEN (0 - MaxInt32) - 1 ELSE r + 1

\* Mutant: the write is not guarded by the lock
LockFreeAlways == TRUE

\* ipc.lock.Lock() returns
LockFree == lock = Free

\* Mutant: nothing is written for id 0, whatever the value
RespondSkipsZero(id, kind) == id = 0

\* respond: "if id == 0 && response == nil { return }"
RespondSkips(id, kind) == id = 0 /\ kind = "nil"

\* Mutant: every reply is a "response"
RespondCommandPlain(kind) == CommandResponse

\* respond: the command of the reply; only an error value gives "error"
RespondCommand(kind) == IF kind = "error" THEN CommandError ELSE CommandResponse

\* What a handler call can do: return nil, a value or an error; panic with
\* an error value, with a non-error value (a string) or with nil.
Outcomes == {"ret-nil", "ret-value", "ret-error",
             "panic-error", "panic-string", "panic-nil"}

IsPanic(o) == o \in {"panic-error", "panic-string", "panic-nil"}

\* Mutant: no deferred recover, a panic ends the process
CallHandlerNoRecover(o) ==
  IF IsPanic(o)
    THEN {[crash |-> TRUE, respond |-> FALSE, kind |-> "nil"]}
    ELSE {[crash |-> FALSE, respond |-> TRUE,
           kind |-> IF o = "ret-nil" THEN "nil"
                    ELSE IF o = "ret-value" THEN "value" ELSE "error"]}

\* callHandler: the values respond can be called with for an outcome.
\* crash: the panic leaves the goroutine and ends the process.
\* recover() of panic(nil) is nil before Go 1.21 (no respond call) and a
\* *runtime.PanicNilError, an error, from Go 1.21 on.
CallHandler(o) ==
  CASE o = "ret-nil"      -> {[crash |-> FALSE, respond |-> TRUE, kind |-> "nil"]}
    [] o = "ret-value"    -> {[crash |-> FALSE, respond |-> TRUE, kind |-> "value"]}
    [] o = "ret-error"    -> {[crash |-> FALSE, respond |-> TRUE, kind |-> "error"]}
    [] o = "panic-error"  -> {[crash |-> FALSE, respond |-> TRUE, kind |-> "error"]}
    [] o = "panic-string" -> {[crash |-> FALSE, respond |-> TRUE, kind |-> "string"]}
    [] o = "panic-nil"    -> {[crash |-> FALSE, respond |-> FALSE, kind |-> "nil"],
                              [crash |-> FALSE, respond |-> TRUE, kind |-> "error"]}

\* ---------------------------------------------------------------- Init
InitIPC ==
  /\ reqID = 0
  /\ waiters = <<>>
  /\ handlers = {IncomingLog}
  /\ lock = Free
  /\ encoding = {}
  /\ loopPc = "read"
  /\ loopFrame = None
  /\ pc = [c \in Callers |-> "idle"]
  /\ rid = [c \in Callers |-> 0]
  /\ chan = [c \in Callers |-> <<>>]
  /\ closed = [c \in Callers |-> FALSE]
  /\ got = [c \in Callers |-> None]
  /\ hs = [h \in Slots |-> [pc |-> "free", id |-> 0, frame |-> None]]
  /\ dropped = FALSE

InitMac ==
  /\ macPc = "init"
  /\ proc = "nil"
  /\ procState = "nil"
  /\ child = "none"
  /\ macHandlers = {}
  /\ readLoop = "none"
  /\ logUnknown = FALSE
  /\ pingPc = "none"
  /\ stopPinger = 0
  /\ host = "up"
  /\ sigterms = 0
  /\ killTimers = 0
  /\ stops = 0
  /\ lastStop = "none"

InitBridge ==
  /\ wsPc = "loop"
  /\ reconnectBackoff = defaultReconnectBackoff
  /\ waited = 0
  /\ dialTime = 0
  /\ sessionLen = 0
  /\ shortCircuited = FALSE
  /\ streak = 0
  /\ prevBackoff = defaultReconnectBackoff
  /\ lastErr = "none"
  /\ wsStopErr = "none"
  /\ stopping = FALSE
  /\ brStop = 0
  /\ websocketStopped = FALSE
  /\ isPc = "idle"
  /\ psPc = "idle"
  /\ psResult = "none"
  /\ wgDone = FALSE
  /\ wgCount = 0
  /\ latestState = "nil"
  /\ lastPassed = "nil"
  /\ statusSent = "none"
  /\ pgPc = "none"
  /\ pingsAfterFlag = 0

\* The connector of this repository: MacNoSIPConnector.Capabilities
MacNoSIPBridgeState == TRUE

Init ==
  InitIPC /\ InitMac /\ InitBridge /\ bridgeStateCap = MacNoSIPBridgeState

\* The bridge with any connector
InitAnyConnector ==
  InitIPC /\ InitMac /\ InitBridge /\ bridgeStateCap \in BOOLEAN

\* ------------------------------------------------- Processor.Request
\* respChan := make(chan *Message, 1); reqID := atomic.AddInt32(...)
RequestAlloc(c) ==
  /\ pc[c] = "idle"
  /\ reqID' = NextReqID(reqID)
  /\ rid' = [rid EXCEPT ![c] = NextReqID(reqID)]
  /\ pc' = [pc EXCEPT ![c] = "register"]
  /\ UNCHANGED <<waiters, handlers, lock, encoding, loopPc, loopFrame,
                 chan, closed, got, hs, dropped, macVars, brVars>>

\* waiterLock: ipc.waiters[reqID] = respChan
RegisterWaiter(c) == (rid[c] :> c) @@ Remove(waiters, rid[c])

RequestRegister(c) ==
  /\ pc[c] = "register"
  /\ waiters' = RegisterWaiter(c)
  /\ pc' = [pc EXCEPT ![c] = "lock"]
  /\ UNCHANGED <<reqID, handlers, lock, encoding, loopPc, loopFrame,
                 rid, chan, closed, got, hs, dropped, macVars, brVars>>

\* ipc.lock.Lock(); Encode starts
RequestWriteBegin(c) ==
  /\ pc[c] = "lock"
  /\ LockFree
  /\ lock' = Writer("req", c)
  /\ encoding' = encoding \cup {Writer("req", c)}
  /\ pc' = [pc EXCEPT ![c] = "encode"]
  /\ UNCHANGED <<reqID, waiters, handlers, loopPc, loopFrame,
                 rid, chan, closed, got, hs, dropped, macVars, brVars>>

\* Encode returns (err nil or not); ipc.lock.Unlock()
RequestWriteEnd(c) ==
  /\ pc[c] = "encode"
  /\ \E ok \in BOOLEAN :
       pc' = [pc EXCEPT ![c] = IF ok THEN "waiting" ELSE "cleanup"]
  /\ lock' = Free
  /\ encoding' = encoding \ {Writer("req", c)}
  /\ UNCHANGED <<reqID, waiters, handlers, loopPc, loopFrame,
                 rid, chan, closed, got, hs, dropped, macVars, brVars>>

\* Mutant: the failed request's entry is not deleted
CleanupWaitersKeep(c) == waiters

\* err != nil: waiterLock: delete(ipc.waiters, reqID)
CleanupWaiters(c) == Remove(waiters, rid[c])

RequestCleanup(c) ==
  /\ pc[c] = "cleanup"
  /\ waiters' = CleanupWaiters(c)
  /\ pc' = [pc EXCEPT ![c] = "close"]
  /\ UNCHANGED <<reqID, handlers, lock, encoding, loopPc, loopFrame,
                 rid, chan, closed, got, hs, dropped, macVars, brVars>>

\* close(respChan); return respChan, err
RequestClose(c) ==
  /\ pc[c] = "close"
  /\ closed' = [closed EXCEPT ![c] = TRUE]
  /\ pc' = [pc EXCEPT ![c] = "failed"]
  /\ UNCHANGED <<reqID, waiters, handlers, lock, encoding, loopPc,
                 loopFrame, rid, chan, got, hs, dropped, macVars, brVars>>

\* --------------------------------------------- Processor.RequestWait
\* case rawData := <-respChan
WaitReceive(c) ==
  /\ pc[c] = "waiting"
  /\ chan[c] # <<>>
  /\ got' = [got EXCEPT ![c] = Head(chan[c])]
  /\ chan' = [chan EXCEPT ![c] = Tail(chan[c])]
  /\ pc' = [pc EXCEPT ![c] = "done"]
  /\ UNCHANGED <<reqID, waiters, handlers, lock, encoding, loopPc,
                 loopFrame, rid, closed, hs, dropped, macVars, brVars>>

\* case <-ctx.Done(): return an error; the waiter table is not touched
WaitCtxDone(c) ==
  /\ pc[c] = "waiting"
  /\ pc' = [pc EXCEPT ![c] = "abandoned"]
  /\ UNCHANGED <<reqID, waiters, handlers, lock, encoding, loopPc,
                 loopFrame, rid, chan, closed, got, hs, dropped, macVars, brVars>>

\* ---------------------------------------------------- Processor.Loop
\* Mutant: the reply goes to some waiter, not to the one of msg.ID
LoopTargetAny(id) == waiters[CHOOSE i \in DOMAIN waiters : TRUE]

\* waiter, ok := ipc.waiters[msg.ID]
LoopTarget(id) == waiters[id]

\* Mutant: the entry stays in the table after the delivery
LoopDeleteKeep(id) == waiters

\* delete(ipc.waiters, msg.ID)
LoopDelete(id) == Remove(waiters, id)

\* An inbound "response" or "error" envelope. "waiter <- &msg" is a send on
\* a channel of capacity 1: it blocks on a full buffer and panics on a
\* closed channel.
LoopReply(cmd, id) ==
  /\ loopPc = "read"
  /\ IF id \in DOMAIN waiters
       THEN LET w == LoopTarget(id) IN
            /\ waiters' = LoopDelete(id)
            /\ IF closed[w]
                 THEN loopPc' = "panicked" /\ chan' = chan
                 ELSE IF Len(chan[w]) >= 1
                   THEN loopPc' = "blocked" /\ chan' = chan
                   ELSE /\ loopPc' = loopPc
                        /\ chan' = [chan EXCEPT ![w] = Append(@,
                              [command |-> cmd, id |-> id])]
       ELSE UNCHANGED <<waiters, chan, loopPc>>
  /\ dropped' = (dropped \/ id \notin DOMAIN waiters)
  /\ UNCHANGED <<reqID, handlers, lock, encoding, loopFrame, pc, rid,
                 closed, got, hs, macVars, brVars>>

\* An inbound envelope with a registered handler: go ipc.callHandler(...)
LoopDispatch(cmd, id) ==
  /\ loopPc = "read"
  /\ cmd \in handlers
  /\ \E h \in Slots :
       /\ hs[h].pc = "free"
       /\ hs' = [hs EXCEPT ![h] = [pc |-> "run", id |-> id, frame |-> None]]
  /\ UNCHANGED <<reqID, waiters, handlers, lock, encoding, loopPc,
                 loopFrame, pc, rid, chan, closed, got, dropped, macVars, brVars>>

\* An inbound envelope without a handler: ipc.respond(msg.ID,
\* ErrUnknownCommand), run by the loop itself
LoopUnknown(cmd, id) ==
  /\ loopPc = "read"
  /\ cmd \notin handlers
  /\ IF RespondSkips(id, "error")
       THEN UNCHANGED <<loopPc, loopFrame>>
       ELSE /\ loopPc' = "respond"
            /\ loopFrame' = Frame(RespondCommand("error"), id, "unknown")
  /\ UNCHANGED <<reqID, waiters, handlers, lock, encoding, pc, rid,
                 chan, closed, got, hs, dropped, macVars, brVars>>

\* respond in the loop: ipc.lock.Lock(); Encode starts
LoopWriteBegin ==
  /\ loopPc = "respond"
  /\ LockFree
  /\ lock' = LoopWriter
  /\ encoding' = encoding \cup {LoopWriter}
  /\ loopPc' = "encode"
  /\ UNCHANGED <<reqID, waiters, handlers, loopFrame, pc, rid, chan,
                 closed, got, hs, dropped, macVars, brVars>>

\* Encode returns (an error is only logged); Unlock; back to Decode
LoopWriteEnd ==
  /\ loopPc = "encode"
  /\ lock' = Free
  /\ encoding' = encoding \ {LoopWriter}
  /\ loopPc' = "read"
  /\ loopFrame' = None
  /\ UNCHANGED <<reqID, waiters, handlers, pc, rid, chan, closed, got, hs,
                 dropped, macVars, brVars>>

\* Decode returns io.EOF or another error: break
LoopEOF ==
  /\ loopPc = "read"
  /\ loopPc' = "done"
  /\ UNCHANGED <<reqID, waiters, handlers, lock, encoding, loopFrame,
                 pc, rid, chan, closed, got, hs, dropped, macVars, brVars>>

\* --------------------------------------------- Processor.callHandler
FreeSlot == [pc |-> "free", id |-> 0, frame |-> None]

\* resp := handler(msg.Data), the deferred recover, and respond up to and
\* including ipc.lock.Lock(): all of it local to the goroutine, so one step,
\* taken when the write lock is free (or at once when nothing is written)
HandlerRun(h) ==
  /\ hs[h].pc = "run"
  /\ \E o \in Outcomes : \E r \in CallHandler(o) :
       IF r.crash
         THEN /\ loopPc' = "crashed"
              /\ hs' = [hs EXCEPT ![h] = FreeSlot]
              /\ UNCHANGED <<lock, encoding>>
         ELSE /\ loopPc' = loopPc
              /\ IF ~r.respond \/ RespondSkips(hs[h].id, r.kind)
                   THEN /\ hs' = [hs EXCEPT ![h] = FreeSlot]
                        /\ UNCHANGED <<lock, encoding>>
                   ELSE /\ LockFree
                        /\ lock' = Writer("handler", h)
                        /\ encoding' = encoding \cup {Writer("handler", h)}
                        /\ hs' = [hs EXCEPT ![h] =
                             [pc |-> "encode", id |-> hs[h].id,
                              frame |-> Frame(RespondCommand(r.kind),
                                              hs[h].id, o)]]
  /\ UNCHANGED <<reqID, waiters, handlers, loopFrame, pc, rid, chan, closed,
                 got, dropped, macVars, brVars>>

\* Encode returns (an error is only logged); Unlock; the goroutine ends
HandlerWriteEnd(h) ==
  /\ hs[h].pc = "encode"
  /\ lock' = Free
  /\ encoding' = encoding \ {Writer("handler", h)}
  /\ hs' = [hs EXCEPT ![h] = FreeSlot]
  /\ UNCHANGED <<reqID, waiters, handlers, loopPc, loopFrame, pc, rid,
                 chan, closed, got, dropped, macVars, brVars>>

\* ------------------------------------------- MacNoSIPConnector.Start
\* mac.proc = exec.Command(...); the pipes; NewCustomProcessor; the
\* goroutine running ipcProc.Loop is started; SetIPC
StartCreate ==
  /\ host = "up"
  /\ macPc = "init"
  /\ proc' = "set"
  /\ readLoop' = "reading"
  /\ macPc' = "created"
  /\ UNCHANGED <<ipcVars, brVars, procState, child, macHandlers, logUnknown,
                 pingPc,
                 stopPinger, host, sigterms, killTimers, stops, lastStop>>

\* err = mac.proc.Start(); on an error Start returns it
StartProcess ==
  /\ host = "up"
  /\ macPc = "created"
  /\ \E ok \in BOOLEAN :
       /\ child' = IF ok THEN "running" ELSE child
       /\ macPc' = IF ok THEN "started" ELSE "failed"
  /\ UNCHANGED <<ipcVars, brVars, proc, procState, macHandlers, readLoop, logUnknown,
                 pingPc, stopPinger, host, sigterms, killTimers, stops,
                 lastStop>>

\* ipcProc.SetHandler(IncomingLog, mac.handleIncomingLog)
StartSetHandler ==
  /\ host = "up"
  /\ macPc = "started"
  /\ macHandlers' = macHandlers \cup {IncomingLog}
  /\ macPc' = "registered"
  /\ UNCHANGED <<ipcVars, brVars, proc, procState, child, readLoop, logUnknown, pingPc,
                 stopPinger, host, sigterms, killTimers, stops, lastStop>>

\* go mac.pingLoop(ipcProc); return mac.APIWithIPC.Start()
StartPingLoop ==
  /\ host = "up"
  /\ macPc = "registered"
  /\ pingPc' = "send"
  /\ macPc' = "returned"
  /\ UNCHANGED <<ipcVars, brVars, proc, procState, child, macHandlers, readLoop,
                 logUnknown, stopPinger, host, sigterms, killTimers, stops,
                 lastStop>>

\* The child ends on its own: exit(code), or death by a signal
ChildExit ==
  /\ host = "up"
  /\ child = "running"
  /\ child' \in {"exited", "signaled"}
  /\ UNCHANGED <<ipcVars, brVars, macPc, proc, procState, macHandlers, readLoop,
                 logUnknown, pingPc, stopPinger, host, sigterms, killTimers,
                 stops, lastStop>>

\* The read loop of the connector's Processor gets a "log" envelope from the
\* child: dispatched when a handler is registered, "unknown command" if not
ReadLoopLog ==
  /\ host = "up"
  /\ readLoop = "reading"
  /\ child = "running"
  /\ logUnknown' = (logUnknown \/ IncomingLog \notin macHandlers)
  /\ UNCHANGED <<ipcVars, brVars, macPc, proc, procState, child, macHandlers, readLoop,
                 pingPc, stopPinger, host, sigterms, killTimers, stops,
                 lastStop>>

\* ipcProc.Loop() returns: the child's stdout is closed (EOF) or a frame did
\* not decode
ReadLoopEnd ==
  /\ host = "up"
  /\ readLoop = "reading"
  /\ child # "none"
  /\ readLoop' = "ended"
  /\ UNCHANGED <<ipcVars, brVars, macPc, proc, procState, child, macHandlers,
                 logUnknown, pingPc, stopPinger, host, sigterms, killTimers,
                 stops, lastStop>>

\* "if mac.proc.ProcessState.Exited() { os.Exit(ExitCode()) }": ProcessState
\* is nil until Wait has returned, and Exited on nil dereferences it
ReadLoopCheck ==
  /\ host = "up"
  /\ readLoop = "ended"
  /\ readLoop' = "finished"
  /\ host' = IF procState = "nil" THEN "panic"
             ELSE IF procState = "exited" THEN "exit-child-code" ELSE host
  /\ UNCHANGED <<ipcVars, brVars, macPc, proc, procState, child, macHandlers,
                 logUnknown, pingPc, stopPinger, sigterms, killTimers, stops,
                 lastStop>>

\* ----------------------------------------- MacNoSIPConnector.pingLoop
\* resp, err := ipcProc.RequestAsync(ReqPing, nil); err: os.Exit(254);
\* timeout := time.After(mac.pingInterval)
PingSend ==
  /\ host = "up"
  /\ pingPc = "send"
  /\ \E ok \in BOOLEAN :
       /\ pingPc' = IF ok THEN "wait" ELSE "exited"
       /\ host' = IF ok THEN host ELSE "exit254"
  /\ UNCHANGED <<ipcVars, brVars, macPc, proc, procState, child, macHandlers, readLoop,
                 logUnknown, stopPinger, sigterms, killTimers, stops, lastStop>>

\* The cases of a select that are ready: a value in mac.stopPinger, the
\* timer (it can fire at any moment), and in the first select the reply of
\* the child, which only a running read loop delivers
ReadyCases(withReply) ==
  {"timeout"}
    \cup (IF stopPinger > 0 THEN {"stop"} ELSE {})
    \cup (IF withReply /\ readLoop = "reading" /\ child = "running"
            THEN {CommandResponse, CommandError} ELSE {})

\* Mutant: on the timeout the loop goes on to wait for the next interval
PingWaitPcPatient(case) ==
  IF case = "stop" THEN "stopped"
  ELSE IF case \in {CommandResponse, "timeout"} THEN "sleep" ELSE "exited"

\* Where the first select leaves the loop: returned on the stop signal, on
\* to the second select after a reply that is not an error, gone with the
\* host process on the timeout and on an "error" reply
PingWaitPc(case) ==
  IF case = "stop" THEN "stopped"
  ELSE IF case = CommandResponse THEN "sleep" ELSE "exited"

\* first select: case <-mac.stopPinger: return; case <-timeout:
\* os.Exit(255); case rawData := <-resp: os.Exit(253) on an "error" reply
PingWait ==
  /\ host = "up"
  /\ pingPc = "wait"
  /\ \E case \in ReadyCases(TRUE) :
       /\ pingPc' = PingWaitPc(case)
       /\ host' = IF case = "timeout" THEN "exit255"
                  ELSE IF case = CommandError THEN "exit253" ELSE host
       /\ stopPinger' = IF case = "stop" THEN stopPinger - 1 ELSE stopPinger
  /\ UNCHANGED <<ipcVars, brVars, macPc, proc, procState, child, macHandlers, readLoop,
                 logUnknown, sigterms, killTimers, stops, lastStop>>

\* second select: case <-timeout: the next round; case <-mac.stopPinger:
\* return
PingSleep ==
  /\ host = "up"
  /\ pingPc = "sleep"
  /\ \E case \in ReadyCases(FALSE) :
       /\ pingPc' = IF case = "stop" THEN "stopped" ELSE "send"
       /\ stopPinger' = IF case = "stop" THEN stopPinger - 1 ELSE stopPinger
  /\ UNCHANGED <<ipcVars, brVars, macPc, proc, procState, child, macHandlers, readLoop,
                 logUnknown, host, sigterms, killTimers, stops, lastStop>>

\* -------------------------------------------- MacNoSIPConnector.Stop
\* Mutant: a nil ProcessState does not count as "not running"
StopNotRunningNoNil == proc = "nil" \/ procState = "exited"

\* "mac.proc == nil || mac.proc.ProcessState == nil ||
\*  mac.proc.ProcessState.Exited()". Exited is false for a child that a
\* signal ended.
StopNotRunning == proc = "nil" \/ procState = "nil" \/ procState = "exited"

\* One call of Stop. Past the guard: mac.stopPinger <- true (blocks on a full
\* buffer), SIGTERM, the 3 s kill timer, and proc.Wait(), which returns once
\* the child has ended and sets ProcessState.
Stop ==
  /\ host = "up"
  /\ stops < MaxStops
  /\ stops' = stops + 1
  /\ IF StopNotRunning
       THEN /\ lastStop' = "noop"
            /\ UNCHANGED <<stopPinger, sigterms, killTimers, child, procState>>
       ELSE /\ stopPinger < StopPingerCap
            /\ stopPinger' = stopPinger + 1
            /\ sigterms' = sigterms + 1
            /\ killTimers' = killTimers + 1
            /\ child' \in (IF child = "running" THEN {"exited", "signaled"}
                                                 ELSE {child})
            /\ procState' = child'
            /\ lastStop' = "full"
  /\ UNCHANGED <<ipcVars, brVars, macPc, proc, macHandlers, readLoop, logUnknown,
                 pingPc, host>>

\* ------------------------------------------- IMBridge.startWebsocket
\* Durations the environment chooses, in seconds: how long an attempt takes
\* to connect or to fail, how long a session stays connected (LongSession
\* is the shortest one that, after a wait of the maximum backoff, ends more
\* than the reset window after the previous disconnect), and how far into
\* a backoff wait of b seconds a short-circuit arrives
LongSession == reconnectBackoffReset - maxReconnectBackoff + 1
DialTimes == {0, 1}
SessionTimes ==
  {1, LongSession, reconnectBackoffReset, reconnectBackoffReset + 1}
ShortWaits(b) == {0, b - 1}

\* streak value once the disconnects are no longer counted
Untracked == MaxStreak + 1

Min(a, b) == IF a < b THEN a ELSE b

\* now - lastDisconnect at the disconnect: lastDisconnect is the time of the
\* previous disconnect (of the loop's start before the first one)
Elapsed == waited + dialTime + sessionLen

\* Mutant: the backoff is never reset
NextBackoffNoReset(b, e) == Min(b * 2, maxReconnectBackoff)

\* "if lastDisconnect+reconnectBackoffReset.Nanoseconds() < now
\*  { reconnectBackoff = defaultReconnectBackoff } else { reconnectBackoff
\*  *= 2; if reconnectBackoff > maxReconnectBackoff { ... = max } }"
NextBackoff(b, e) ==
  IF e > reconnectBackoffReset THEN defaultReconnectBackoff
  ELSE Min(b * 2, maxReconnectBackoff)

\* Mutant: only the manual stop ends the loop
TerminalManualOnly(err) == err = "manualstop"

\* err == ErrWebsocketManualStop, or a CloseCommand whose status is
\* MeowConnectionReplaced: the loop returns
Terminal(err) == err \in {"manualstop", "replaced"}

HasWebsocket == wsPc = "connected"

\* A read of br.stopping. The field is a plain bool that internalStop
\* writes from another goroutine without synchronisation: the read gives
\* what the memory holds at that moment, it comes before or after the write.
ReadStopping == {stopping}

\* AS.StopWebsocket(err): closes the connected session with err; without a
\* connected session it does nothing
StopWebsocket(err) ==
  wsStopErr' = IF HasWebsocket /\ wsStopErr = "none" THEN err ELSE wsStopErr

\* The non-blocking send on shortCircuitReconnectBackoff (unbuffered) finds
\* the loop in its select: the wait ends before its timer
WakeLoop ==
  /\ wsPc = "wait"
  /\ wsPc' = "check2"
  /\ waited' \in ShortWaits(reconnectBackoff)
  /\ shortCircuited' = TRUE

\* err := br.AS.StartWebsocket(...) is called
WsAttemptBegin ==
  /\ wsPc = "loop"
  /\ wsPc' = "dialing"
  /\ dialTime' = 0
  /\ sessionLen' = 0
  /\ UNCHANGED <<ipcVars, macVars, statusVars, pgVars, wgDone,
                 reconnectBackoff, waited, shortCircuited,
                 streak, prevBackoff, lastErr, wsStopErr, stopping, brStop, websocketStopped, isPc, psPc, psResult>>

\* Mutant: wg.Done is called on every connect
OnceDoAlways(done, n) == Min(n + 1, 2)

\* wgOnce.Do(wg.Done): the number of wg.Done calls after it
OnceDo(done, n) == IF done THEN n ELSE n + 1

\* The statuses a connector may pass to SendBridgeStatus, and the default
\* one of onConnect
Statuses == {"status1", "status2"}
BridgeStatusConnected == "CONNECTED"

\* Mutant: the default status is sent whatever the connector can do
ConnectStatusAnyConnector(latest, cap) ==
  IF latest # "nil" THEN latest ELSE BridgeStatusConnected

\* onConnect: "if br.latestState != nil { go br.SendBridgeStatus(
\* *br.latestState) } else if !br.IM.Capabilities().BridgeState { go
\* br.SendBridgeStatus(BridgeStatus{StateEvent: BridgeStatusConnected}) }"
ConnectStatus(latest, cap) ==
  IF latest # "nil" THEN latest
  ELSE IF ~cap THEN BridgeStatusConnected ELSE "nothing"

\* The connection is made and onConnect runs: the status, wgOnce.Do(wg.Done)
\* and the non-blocking send on websocketStarted, which reaches a PingServer
\* call waiting for it
WsConnect ==
  /\ wsPc = "dialing"
  /\ wsPc' = "connected"
  /\ dialTime' \in DialTimes
  /\ wsStopErr' = "none"
  /\ psPc' = IF psPc = "await" THEN "request" ELSE psPc
  /\ statusSent' = ConnectStatus(latestState, bridgeStateCap)
  /\ wgCount' = OnceDo(wgDone, wgCount)
  /\ wgDone' = TRUE
  /\ UNCHANGED <<ipcVars, macVars, reconnectBackoff, waited, sessionLen,
                 shortCircuited, streak, prevBackoff, lastErr, stopping,
                 brStop, websocketStopped, isPc, psResult, bridgeStateCap,
                 latestState, lastPassed, pgVars>>

\* ------------------------------------------ IMBridge.SendBridgeStatus
\* The connector reports a status: "if br.IM.Capabilities().BridgeState
\* { br.latestState = &state }", then the status is sent
SendBridgeStatus ==
  /\ \E st \in Statuses :
       /\ lastPassed' = st
       /\ latestState' = IF bridgeStateCap THEN st ELSE latestState
  /\ UNCHANGED <<ipcVars, macVars, wsPc, reconnectBackoff, waited, dialTime,
                 sessionLen, shortCircuited, streak, prevBackoff, lastErr,
                 wsStopErr, stopping, brStop, websocketStopped, isPc, psPc,
                 psResult, wgDone, wgCount, bridgeStateCap, statusSent,
                 pgVars>>

\* StartWebsocket has returned err: the loop returns on a terminal one
\* (calling br.Stop() when replaced: a non-blocking send on br.stop) and
\* goes on to its first look at br.stopping otherwise. The deferred function
\* closes websocketStopped.
Returned(err) ==
  /\ lastErr' = err
  /\ wsPc' = IF Terminal(err) THEN "finished" ELSE "check1"
  /\ websocketStopped' = Terminal(err)
  /\ brStop' = IF err = "replaced" THEN 1 ELSE brStop

\* The attempt fails before a connection exists
WsDialFail ==
  /\ wsPc = "dialing"
  /\ dialTime' \in DialTimes
  /\ Returned("other")
  /\ UNCHANGED <<ipcVars, macVars, statusVars, pgVars, wgDone,
                 reconnectBackoff, waited, sessionLen,
                 shortCircuited, streak, prevBackoff, wsStopErr, stopping,
                 isPc, psPc, psResult>>

\* The session ends: with the error of a StopWebsocket call if there was
\* one, else cleanly, with an error, or with the peer's close command
WsDisconnect ==
  /\ wsPc = "connected"
  /\ sessionLen' \in SessionTimes
  /\ \E err \in (IF wsStopErr # "none" THEN {wsStopErr}
                                        ELSE {"nil", "other", "replaced"}) :
       Returned(err)
  /\ UNCHANGED <<ipcVars, macVars, statusVars, pgVars, wgDone,
                 reconnectBackoff, waited, dialTime,
                 shortCircuited, streak, prevBackoff, wsStopErr, stopping,
                 isPc, psPc, psResult>>

\* "if br.stopping { return }", then the new backoff and lastDisconnect = now
WsCheck1 ==
  /\ wsPc = "check1"
  /\ \E s \in ReadStopping :
       IF s
         THEN /\ wsPc' = "finished"
              /\ websocketStopped' = TRUE
              /\ UNCHANGED <<reconnectBackoff, waited, shortCircuited, streak,
                             prevBackoff>>
         ELSE /\ wsPc' = "sleep"
              /\ reconnectBackoff' = NextBackoff(reconnectBackoff, Elapsed)
              /\ prevBackoff' = reconnectBackoff
              /\ streak' = IF Elapsed > reconnectBackoffReset THEN Untracked
                           ELSE Min(streak + 1, Untracked)
              /\ waited' = 0
              /\ shortCircuited' = FALSE
              /\ UNCHANGED websocketStopped
  /\ UNCHANGED <<ipcVars, macVars, statusVars, pgVars, wgDone,
                 dialTime, sessionLen, lastErr, wsStopErr,
                 stopping, brStop, isPc, psPc, psResult>>

\* The loop enters the select on the short-circuit channel and the timer
WsEnterWait ==
  /\ wsPc = "sleep"
  /\ wsPc' = "wait"
  /\ UNCHANGED <<ipcVars, macVars, statusVars, pgVars, wgDone,
                 reconnectBackoff, waited, dialTime,
                 sessionLen, shortCircuited, streak, prevBackoff, lastErr,
                 wsStopErr, stopping, brStop, websocketStopped,
                 isPc, psPc, psResult>>

\* case <-time.After(reconnectBackoff)
WsTimer ==
  /\ wsPc = "wait"
  /\ wsPc' = "check2"
  /\ waited' = reconnectBackoff
  /\ UNCHANGED <<ipcVars, macVars, statusVars, pgVars, wgDone,
                 reconnectBackoff, dialTime, sessionLen,
                 shortCircuited, streak, prevBackoff, lastErr, wsStopErr,
                 stopping, brStop, websocketStopped, isPc, psPc,
                 psResult>>

\* the second "if br.stopping { return }", after the wait
WsCheck2 ==
  /\ wsPc = "check2"
  /\ \E s \in ReadStopping :
       /\ wsPc' = IF s THEN "finished" ELSE "loop"
       /\ websocketStopped' = s
  /\ UNCHANGED <<ipcVars, macVars, statusVars, pgVars, wgDone,
                 reconnectBackoff, waited, dialTime,
                 sessionLen, shortCircuited, streak, prevBackoff, lastErr,
                 wsStopErr, stopping, brStop, isPc, psPc, psResult>>

\* ---------------------------------------------- IMBridge.internalStop
\* br.stopping = true (then Crypto.Stop). The bridge is stopped after Start
\* has returned, and Start waits for the first connect.
InternalStopFlag ==
  /\ wgDone
  /\ isPc = "idle"
  /\ isPc' = "stoppinger"
  /\ stopping' = TRUE
  /\ UNCHANGED <<ipcVars, macVars, statusVars, pgVars, wgDone, wsPc,
                 reconnectBackoff, waited, dialTime, sessionLen,
                 shortCircuited, streak, prevBackoff, lastErr, wsStopErr,
                 brStop, websocketStopped, psPc, psResult>>

\* select { case br.stopPinger <- struct{}{}: default: }: the channel is
\* unbuffered, the send succeeds only when the pinger is in its select
InternalStopPinger ==
  /\ isPc = "stoppinger"
  /\ isPc' = "stopws"
  /\ pgPc' = IF pgPc = "select" THEN "returned" ELSE pgPc
  /\ UNCHANGED <<ipcVars, macVars, statusVars, pingsAfterFlag, wgDone, wsPc,
                 reconnectBackoff, waited, dialTime, sessionLen,
                 shortCircuited, streak, prevBackoff, lastErr, wsStopErr,
                 stopping, brStop, websocketStopped, psPc, psResult>>

\* br.AS.StopWebsocket(appservice.ErrWebsocketManualStop), then the event
\* processor and the connector are stopped
InternalStopWebsocket ==
  /\ isPc = "stopws"
  /\ isPc' = "shortcircuit"
  /\ StopWebsocket("manualstop")
  /\ UNCHANGED <<ipcVars, macVars, statusVars, pgVars, wgDone,
                 wsPc, reconnectBackoff, waited, dialTime,
                 sessionLen, shortCircuited, streak, prevBackoff, lastErr,
                 stopping, brStop, websocketStopped, psPc, psResult>>

\* select { case br.shortCircuitReconnectBackoff <- struct{}{}: default: }
InternalStopShortCircuit ==
  /\ isPc = "shortcircuit"
  /\ isPc' = "awaitstopped"
  /\ IF wsPc = "wait"
       THEN WakeLoop
       ELSE UNCHANGED <<wsPc, waited, shortCircuited>>
  /\ UNCHANGED <<ipcVars, macVars, statusVars, pgVars, wgDone,
                 reconnectBackoff, dialTime, sessionLen,
                 streak, prevBackoff, lastErr, wsStopErr, stopping, brStop,
                 websocketStopped, psPc, psResult>>

\* select { case <-br.websocketStopped: case <-time.After(4 s): }: the timer
\* can always end the wait, the closed channel ends it at once
InternalStopWait ==
  /\ isPc = "awaitstopped"
  /\ isPc' \in {"done", IF websocketStopped THEN "done" ELSE "timedout"}
  /\ UNCHANGED <<ipcVars, macVars, statusVars, pgVars, wgDone,
                 wsPc, reconnectBackoff, waited, dialTime,
                 sessionLen, shortCircuited, streak, prevBackoff, lastErr,
                 wsStopErr, stopping, brStop, websocketStopped, psPc,
                 psResult>>

\* ------------------------------------------------ IMBridge.PingServer
\* The start of a PingServer call. Without a websocket: the non-blocking
\* short-circuit send, and a return when nothing receives it; with one,
\* straight to the ping request.
PingServerCall ==
  /\ psPc = "idle"
  /\ IF HasWebsocket
       THEN /\ psPc' = "request"
            /\ UNCHANGED <<wsPc, waited, shortCircuited, psResult>>
       ELSE IF wsPc = "wait"
         THEN /\ WakeLoop
              /\ psPc' = "await"
              /\ UNCHANGED psResult
         ELSE /\ psResult' = "no-backoff"
              /\ UNCHANGED <<wsPc, waited, shortCircuited, psPc>>
  /\ UNCHANGED <<ipcVars, macVars, statusVars, wgDone, reconnectBackoff,
                 dialTime, sessionLen, streak, prevBackoff, lastErr,
                 wsStopErr, stopping, brStop, websocketStopped, isPc>>

\* PingServer called by the "ping-server" IPC handler; the IPC loop is
\* started at the end of Start
PingServerBegin ==
  /\ wgDone
  /\ pgPc # "ping"
  /\ PingServerCall
  /\ UNCHANGED pgVars

\* case <-time.After(15 * time.Second): a return if there is still no
\* websocket (the case <-br.websocketStarted is part of WsConnect)
PingServerTimeout ==
  /\ psPc = "await"
  /\ psPc' = IF HasWebsocket THEN "request" ELSE "idle"
  /\ psResult' = IF HasWebsocket THEN psResult ELSE "not-connected"
  /\ UNCHANGED <<ipcVars, macVars, statusVars, pgVars, wgDone,
                 wsPc, reconnectBackoff, waited, dialTime,
                 sessionLen, shortCircuited, streak, prevBackoff, lastErr,
                 wsStopErr, stopping, brStop, websocketStopped,
                 isPc>>

\* Mutant: a failed ping stops the websocket with the manual-stop sentinel
PingFailureErrManual == "manualstop"

\* fmt.Errorf("websocket ping returned error in %s: %w", ...): an error
\* that is neither the manual-stop sentinel nor a close command
PingFailureErr == "other"

\* err := br.AS.RequestWebsocket(ctx, ping): on an error the websocket is
\* stopped with it
PingServerRequest ==
  /\ psPc = "request"
  /\ psPc' = "idle"
  /\ \E ok \in BOOLEAN :
       /\ psResult' = IF ok THEN "pong" ELSE "error"
       /\ IF ok THEN UNCHANGED wsStopErr
                  ELSE StopWebsocket(PingFailureErr)
  /\ UNCHANGED <<ipcVars, macVars, statusVars, pgVars, wgDone,
                 wsPc, reconnectBackoff, waited, dialTime,
                 sessionLen, shortCircuited, streak, prevBackoff, lastErr,
                 stopping, brStop, websocketStopped, isPc>>

\* ---------------------------------------------- IMBridge.serverPinger
\* Start: br.stopPinger = make(chan struct{}); go br.serverPinger(). The
\* goroutine creates its ticker and reaches the select.
PingerStart ==
  /\ wgDone
  /\ pgPc = "none"
  /\ pgPc' = "select"
  /\ UNCHANGED <<ipcVars, macVars, statusVars, pingsAfterFlag, wgDone, wsPc,
                 reconnectBackoff, waited, dialTime, sessionLen,
                 shortCircuited, streak, prevBackoff, lastErr, wsStopErr,
                 stopping, brStop, websocketStopped, isPc, psPc, psResult>>

\* case <-clock.C: br.PingServer()
PingerTick ==
  /\ pgPc = "select"
  /\ pgPc' = "ping"
  /\ pingsAfterFlag' = IF stopping THEN Min(pingsAfterFlag + 1, 2)
                                   ELSE pingsAfterFlag
  /\ PingServerCall

\* Mutant: the pinger does not look at br.stopping
PingerAfterPingBlind(s) == "select"

\* "if br.stopping { return }" after the select
PingerAfterPing(s) == IF s THEN "returned" ELSE "select"

\* PingServer has returned: the look at br.stopping, then the next round
PingerCheck ==
  /\ pgPc = "ping"
  /\ psPc = "idle"
  /\ \E s \in ReadStopping : pgPc' = PingerAfterPing(s)
  /\ UNCHANGED <<ipcVars, macVars, statusVars, pingsAfterFlag, wgDone, wsPc,
                 reconnectBackoff, waited, dialTime, sessionLen,
                 shortCircuited, streak, prevBackoff, lastErr, wsStopErr,
                 stopping, brStop, websocketStopped, isPc, psPc, psResult>>

\* -------------------------------------------------------------- specs
SendNext(c) ==
  \/ RequestAlloc(c)
  \/ RequestRegister(c)
  \/ RequestWriteBegin(c)
  \/ RequestWriteEnd(c)
  \/ RequestCleanup(c)
  \/ RequestClose(c)

RequestNext(c) ==
  \/ SendNext(c)
  \/ WaitReceive(c)
  \/ WaitCtxDone(c)

ReplyNext ==
  \E cmd \in {CommandResponse, CommandError}, id \in ReplyIds :
    LoopReply(cmd, id)

HandlerNext ==
  \/ \E cmd \in InboundCommands, id \in CmdIds : LoopDispatch(cmd, id)
  \/ \E h \in Slots : HandlerRun(h)
  \/ \E h \in Slots : HandlerWriteEnd(h)

CommandNext ==
  \/ HandlerNext
  \/ \E cmd \in InboundCommands, id \in CmdIds : LoopUnknown(cmd, id)
  \/ LoopWriteBegin
  \/ LoopWriteEnd

\* Request correlation: every caller issues a request, the peer sends reply
\* envelopes with any id in any order and may close the stream.
Next ==
  \/ \E c \in Callers : RequestNext(c)
  \/ ReplyNext
  \/ LoopEOF

Spec == Init /\ [][Next]_vars

\* Dispatch: the peer sends command and reply envelopes, nobody requests.
NextDispatch ==
  \/ CommandNext
  \/ ReplyNext
  \/ LoopEOF

SpecDispatch == Init /\ [][NextDispatch]_vars

\* Requests next to handlers: NumBusy of the callers issue requests, the
\* peer sends replies and commands that have a handler.
NextPanic ==
  \/ \E c \in 1..NumBusy : RequestNext(c)
  \/ ReplyNext
  \/ HandlerNext

SpecPanic == Init /\ [][NextPanic]_vars

\* The three kinds of writers: NumBusy of the callers write requests (no
\* reply comes), handler goroutines and the loop write their replies.
NextWrite ==
  \/ \E c \in 1..NumBusy : SendNext(c)
  \/ CommandNext

SpecWrite == Init /\ [][NextWrite]_vars

\* The subprocess supervisor: Start, the read-loop goroutine, the ping loop,
\* the child, and calls of Stop at any moment.
NextMac ==
  \/ StartCreate
  \/ StartProcess
  \/ StartSetHandler
  \/ StartPingLoop
  \/ ChildExit
  \/ ReadLoopLog
  \/ ReadLoopEnd
  \/ ReadLoopCheck
  \/ PingSend
  \/ PingWait
  \/ PingSleep
  \/ Stop

SpecMac == Init /\ [][NextMac]_vars

\* The reconnect supervisor: the websocket loop, internalStop and calls of
\* PingServer at any moment.
NextWS ==
  \/ WsAttemptBegin
  \/ WsConnect
  \/ WsDialFail
  \/ WsDisconnect
  \/ WsCheck1
  \/ WsEnterWait
  \/ WsTimer
  \/ WsCheck2
  \/ InternalStopFlag
  \/ InternalStopPinger
  \/ InternalStopWebsocket
  \/ InternalStopShortCircuit
  \/ InternalStopWait
  \/ PingServerBegin
  \/ PingServerTimeout
  \/ PingServerRequest

SpecWS == Init /\ [][NextWS]_vars

\* The connects of the websocket loop and the statuses the connector
\* reports, for any connector.
NextStatus ==
  \/ WsAttemptBegin
  \/ WsConnect
  \/ WsDialFail
  \/ WsDisconnect
  \/ WsCheck1
  \/ WsEnterWait
  \/ WsTimer
  \/ WsCheck2
  \/ SendBridgeStatus

SpecStatus == InitAnyConnector /\ [][NextStatus]_vars

\* The shutdown: the websocket loop, the pinger with its PingServer calls,
\* and internalStop. The durations play no part in it: attempts end at once
\* and sessions are short. Every goroutine goes on running; a connection
\* attempt ends, one way or the other; a session that StopWebsocket has
\* closed ends (one that nothing closes may last for ever); the timers fire.
WsLoopNext ==
  \/ WsAttemptBegin
  \/ WsCheck1
  \/ WsEnterWait
  \/ WsTimer
  \/ WsCheck2

WsAttemptEnd ==
  \/ WsConnect /\ dialTime' = 0
  \/ WsDialFail /\ dialTime' = 0

WsSessionEnd == WsDisconnect /\ sessionLen' = 1

WsStoppedEnd == WsSessionEnd /\ wsStopErr # "none"

InternalStopNext ==
  \/ InternalStopFlag
  \/ InternalStopPinger
  \/ InternalStopWebsocket
  \/ InternalStopShortCircuit
  \/ InternalStopWait

PingerNext ==
  \/ PingerStart
  \/ PingerTick
  \/ PingerCheck
  \/ PingServerTimeout
  \/ PingServerRequest

NextStop ==
  \/ WsLoopNext
  \/ WsAttemptEnd
  \/ WsSessionEnd
  \/ InternalStopNext
  \/ PingerNext

SpecStop ==
  /\ Init /\ [][NextStop]_vars
  /\ WF_vars(WsLoopNext)
  /\ WF_vars(WsAttemptEnd)
  /\ WF_vars(WsStoppedEnd)
  /\ WF_vars(InternalStopNext)
  /\ WF_vars(PingerNext)

\* ============================================================== claims
Pending(c) == pc[c] \in {"register", "lock", "encode", "waiting", "cleanup"}
Received(c) == Len(chan[c]) + (IF got[c] # None THEN 1 ELSE 0)
OwnRepliesOnly ==
  \A c \in Callers :
    /\ \A i \in 1..Len(chan[c]) : chan[c][i].id = rid[c]
    /\ got[c] # None => got[c].id = rid[c]

\* C1: whatever the order in which the peer's replies reach the loop, every
\* message put into a caller's reply channel, and the message the caller
\* receives from it, carries the id allocated to that caller's request.
C1_OwnReply == OwnRepliesOnly

\* C1 witness: the caller with the later id has received its reply while the
\* caller with the earlier id is still waiting, registered and unanswered.
C1_Witness ==
  \E c, d \in Callers :
    /\ rid[c] < rid[d] /\ rid[c] >= 1
    /\ pc[d] = "done" /\ got[d].id = rid[d]
    /\ pc[c] = "waiting" /\ chan[c] = <<>> /\ rid[c] \in DOMAIN waiters

\* C2: at most one reply is ever delivered per request, and a reply whose id
\* has no entry in the waiter table is dropped without changing the table,
\* any reply channel or any caller.
C2_AtMostOneReply ==
  /\ [](\A c \in Callers : Received(c) <= 1)
  /\ [][\A cmd \in {CommandResponse, CommandError}, id \in ReplyIds :
          (LoopReply(cmd, id) /\ id \notin DOMAIN waiters)
            => (dropped' /\ UNCHANGED <<waiters, chan, closed, got, pc, rid,
                                        loopPc>>)]_vars

\* C2 witness: a reply was dropped, one caller has been answered (its id is
\* gone from the table) and another is still registered and unanswered.
C2_Witness ==
  /\ dropped
  /\ \E c, d \in Callers :
       /\ pc[c] = "done" /\ rid[c] \notin DOMAIN waiters
       /\ pc[d] = "waiting" /\ chan[d] = <<>> /\ rid[d] \in DOMAIN waiters
       /\ waiters[rid[d]] = d

\* C3: no two requests pending at the same time have the same id, a
\* registered entry belongs to the request that registered it, and Request
\* never allocates an id that is a key of the waiter table.
C3_UniqueIds ==
  /\ [](\A c, d \in Callers :
          (c # d /\ Pending(c) /\ Pending(d)) => rid[c] # rid[d])
  /\ [](\A c \in Callers :
          (Pending(c) /\ rid[c] \in DOMAIN waiters) => waiters[rid[c]] = c)
  /\ [][\A c \in Callers :
          RequestAlloc(c) => rid'[c] \notin DOMAIN waiters]_vars

\* C3 witness: both callers are registered and waiting at the same time,
\* under different ids.
C3_Witness ==
  /\ \A c \in Callers : pc[c] = "waiting" /\ rid[c] \in DOMAIN waiters
  /\ Cardinality({rid[c] : c \in Callers}) = NumCallers

\* C4: when the write of Request fails, Request returns the error with its id
\* out of the waiter table and its channel closed; the cleanup leaves the
\* read loop, the other entries of the table and the other callers as they
\* were.
C4_SendFailure ==
  /\ [](\A c \in Callers :
          pc[c] = "failed" => (rid[c] \notin DOMAIN waiters /\ closed[c]))
  /\ [][\A c \in Callers :
          (RequestCleanup(c) \/ RequestClose(c)) =>
            /\ loopPc' = loopPc
            /\ \A d \in Callers \ {c} :
                 /\ pc'[d] = pc[d] /\ chan'[d] = chan[d]
                 /\ closed'[d] = closed[d] /\ got'[d] = got[d]
            /\ \A i \in DOMAIN waiters \ {rid[c]} :
                 i \in DOMAIN waiters' /\ waiters'[i] = waiters[i]]_vars

\* C4 witness: one request has failed and returned while the loop is still
\* reading and another caller is registered and waiting.
C4_Witness ==
  \E c, d \in Callers :
    /\ pc[c] = "failed" /\ loopPc = "read"
    /\ pc[d] = "waiting" /\ rid[d] \in DOMAIN waiters

\* C5 as claimed: the loop's "unknown command" reply is written only for an
\* inbound id other than 0.
C5_Original == loopFrame # None => loopFrame.id # 0

\* C5 amended: for an envelope without a handler the loop writes an "error"
\* reply saying "unknown command" addressed to the inbound id, for every id,
\* 0 included, and after the write it reads the next envelope.
C5_UnknownCommand ==
  /\ [](loopPc = "read" =>
          \A cmd \in InboundCommands \ handlers, id \in CmdIds :
            ENABLED (/\ LoopUnknown(cmd, id)
                     /\ loopPc' = "respond"
                     /\ loopFrame' = Frame(CommandError, id, "unknown")))
  /\ [][\A cmd \in InboundCommands, id \in CmdIds :
          LoopUnknown(cmd, id) =>
            /\ loopPc' = "respond"
            /\ loopFrame' = Frame(CommandError, id, "unknown")]_vars
  /\ [][LoopWriteBegin => (loopFrame' = loopFrame /\ loopPc' = "encode")]_vars
  /\ [][LoopWriteEnd => loopPc' = "read"]_vars

\* C5 witness: the loop is writing the "unknown command" reply to an
\* envelope whose id is 0.
C5_Witness ==
  /\ loopPc = "encode"
  /\ loopFrame = Frame(CommandError, 0, "unknown")

\* C6 as claimed: the reply written for a handler that panicked has command
\* "error" and the inbound id, whatever the panic value.
C6_PanicReply ==
  \A h \in Slots :
    (hs[h].pc = "encode" /\ IsPanic(hs[h].frame.why)) =>
      (hs[h].frame.command = CommandError /\ hs[h].frame.id = hs[h].id)

\* C7: a handler call, panicking or not, changes neither the waiter table
\* nor any reply channel nor the read loop; the process survives the panic,
\* and replies still reach the callers they belong to.
C7_PanicIsolated ==
  /\ loopPc # "crashed"
  /\ OwnRepliesOnly
  /\ \A h \in Slots :
       ~ENABLED (/\ HandlerRun(h)
                 /\ ~UNCHANGED <<waiters, chan, closed, got, pc, rid, loopPc,
                                 loopFrame, reqID>>)

\* C7 witness: the reply of a panicked handler is being written, the loop is
\* reading, and a pending request has its own reply in its channel.
C7_Witness ==
  /\ \E h \in Slots : hs[h].pc = "encode" /\ IsPanic(hs[h].frame.why)
  /\ loopPc = "read"
  /\ \E c \in Callers :
       pc[c] = "waiting" /\ chan[c] # <<>> /\ chan[c][1].id = rid[c]

\* C8: at most one writer is inside Encode at any instant, and it is the
\* holder of the write lock.
C8_WritesSerialized ==
  /\ Cardinality(encoding) <= 1
  /\ \A w \in encoding : lock = w

\* C8 witness: a handler goroutine is inside Encode while a Request caller
\* and the read loop's unknown-command reply both wait for the lock.
C8_Witness ==
  /\ \E h \in Slots : hs[h].pc = "encode" /\ Writer("handler", h) \in encoding
  /\ \E c \in Callers : pc[c] = "lock"
  /\ loopPc = "respond"

\* C9 as claimed: the table holds the id while the request is being written
\* and unanswered, and no longer once the reply was received or the caller
\* gave up on its context.
C9_EntryWhileOutstanding ==
  \A c \in Callers :
    /\ (pc[c] \in {"lock", "encode"} /\ chan[c] = <<>>)
         => rid[c] \in DOMAIN waiters
    /\ pc[c] = "done" => rid[c] \notin DOMAIN waiters
    /\ pc[c] = "abandoned" => rid[c] \notin DOMAIN waiters

StopStep == stops' = stops + 1

\* C10: Stop never sends a second SIGTERM nor arms a second kill timer; a
\* Stop when the child was never started or has ended, and every Stop after
\* the first, sends no signal, arms no timer, puts nothing into stopPinger
\* and does not block.
C10_StopIdempotent ==
  /\ [](sigterms <= 1 /\ killTimers <= 1)
  /\ []((host = "up" /\ stops < MaxStops) => ENABLED Stop)
  /\ [][(StopStep /\ (child # "running" \/ stops >= 1)) =>
          (lastStop' = "noop" /\
           UNCHANGED <<sigterms, killTimers, stopPinger, child, procState,
                       pingPc, host>>)]_vars

\* C10 witness: Stop has returned twice, the second time after the child
\* had ended.
C10_Witness ==
  /\ stops >= 2
  /\ lastStop = "noop"
  /\ child \in {"exited", "signaled"}

\* C11 as claimed: a Stop called while the child started by Start is
\* running (nothing has waited on it) puts the stop signal into stopPinger,
\* sends SIGTERM, arms the kill timer and returns after the child has ended.
C11_StopRunningChild ==
  [][(StopStep /\ proc = "set" /\ child = "running" /\ procState = "nil") =>
       /\ stopPinger' = stopPinger + 1
       /\ sigterms' = sigterms + 1
       /\ killTimers' = killTimers + 1
       /\ child' # "running"]_vars

\* C12: while the ping loop waits for the reply to a ping, the timeout case
\* is ready; the step that takes neither a reply nor a stop signal ends the
\* host with exit code 255 and ends the loop: it does not go to the second
\* wait and issues no further ping. A host ended with 255 has no ping loop.
C12_PingTimeoutFatal ==
  /\ []((host = "up" /\ pingPc = "wait") =>
          ENABLED (PingWait /\ host' = "exit255" /\ pingPc' = "exited"))
  /\ [](host = "exit255" => pingPc = "exited")
  /\ [][(pingPc = "wait" /\ pingPc' # "wait") =>
          \/ pingPc' = "stopped" /\ stopPinger' = stopPinger - 1
          \/ /\ readLoop = "reading" /\ child = "running"
             /\ \/ pingPc' = "sleep" /\ host' = "up"
                \/ pingPc' = "exited" /\ host' = "exit253"
          \/ pingPc' = "exited" /\ host' = "exit255"]_vars

\* C12 witness: the host was ended with exit code 255 by the ping loop; no
\* stop signal was ever sent and the child is still running.
C12_Witness ==
  /\ host = "exit255"
  /\ pingPc = "exited"
  /\ stopPinger = 0 /\ lastStop # "full"
  /\ child = "running"

\* C14 as claimed: when the read loop has ended after the child exited on
\* its own and Stop was never called, the host process has been terminated
\* with the child's exit code.
C14_ChildExitCode ==
  (readLoop = "finished" /\ child = "exited" /\ stops = 0)
    => host = "exit-child-code"

RECURSIVE Doubled(_, _)
\* b doubled n times
Doubled(b, n) == IF n = 0 THEN b ELSE Doubled(b * 2, n - 1)

Backoff == wsPc = "check1" /\ wsPc' = "sleep"

\* C15 as claimed: while every disconnect so far came within the reset
\* window, the wait after the n-th disconnect is the default doubled n-1
\* times, capped at the maximum: 2, 4, 8, 16, 32, 64, 120, 120, ...
C15_BackoffSequence ==
  (wsPc \in {"sleep", "wait"} /\ streak \in 1..MaxStreak) =>
    reconnectBackoff =
      Min(Doubled(defaultReconnectBackoff, streak - 1), maxReconnectBackoff)

\* C16: when the session that just ended had been connected for more than
\* the reset window, the backoff of the wait that follows is the default.
C16_LongSessionResets ==
  [][(Backoff /\ sessionLen > reconnectBackoffReset) =>
       reconnectBackoff' = defaultReconnectBackoff]_vars

\* C16 witness: the loop waits the default backoff after a session longer
\* than the reset window, and the backoff before that session was the
\* maximum.
C16_Witness ==
  /\ wsPc = "wait"
  /\ sessionLen > reconnectBackoffReset
  /\ prevBackoff = maxReconnectBackoff
  /\ reconnectBackoff = defaultReconnectBackoff

\* C17 as claimed: the backoff becomes the default only when the session
\* that just ended had been connected for more than the reset window.
C17_ResetOnlyAfterLongSession ==
  [][(Backoff /\ reconnectBackoff' = defaultReconnectBackoff) =>
       sessionLen > reconnectBackoffReset]_vars

\* C18 as claimed: a short-circuit ends the wait with the stored backoff
\* unchanged, and the backoff computed at the next disconnect is the one
\* the same attempt and session would have given after a wait of full
\* length.
C18_ShortCircuitNoCredit ==
  /\ [][(wsPc = "wait" /\ shortCircuited') =>
          (wsPc' = "check2" /\ reconnectBackoff' = reconnectBackoff)]_vars
  /\ [][(Backoff /\ shortCircuited) =>
          reconnectBackoff' =
            NextBackoff(reconnectBackoff,
                        reconnectBackoff + dialTime + sessionLen)]_vars

\* C19 as claimed: while the stopping flag is set the loop neither calls
\* StartWebsocket nor enters the backoff select.
C19_NoReconnectWhenStopping ==
  [][stopping =>
       /\ ~(wsPc = "loop" /\ wsPc' = "dialing")
       /\ ~(wsPc = "sleep" /\ wsPc' = "wait")]_vars

\* C20: StartWebsocket returning the manual stop ends the loop; returning
\* "replaced" ends it with a value in br.stop; the ended loop neither
\* attempts nor waits again. After any other return, unless the stopping
\* flag is set, the loop's next steps take it into the backoff wait.
C20_TerminalErrors ==
  /\ [][(wsPc \in {"dialing", "connected"}
          /\ wsPc' \notin {"dialing", "connected"}) =>
          /\ lastErr' = "manualstop" =>
               (wsPc' = "finished" /\ websocketStopped' /\ brStop' = brStop)
          /\ lastErr' = "replaced" =>
               (wsPc' = "finished" /\ websocketStopped' /\ brStop' = 1)
          /\ lastErr' \in {"nil", "other"} => wsPc' = "check1"
          /\ lastErr' \in {"manualstop", "replaced", "nil", "other"}]_vars
  /\ [][wsPc = "finished" => wsPc' = "finished"]_vars
  /\ [][(wsPc = "check1" /\ ~stopping) => wsPc' \in {"check1", "sleep"}]_vars
  /\ [][wsPc = "sleep" => wsPc' \in {"sleep", "wait"}]_vars

\* C20 witness: the loop has ended on "replaced" while nothing had set the
\* stopping flag, and the bridge stop is requested.
C20_Witness ==
  /\ wsPc = "finished"
  /\ lastErr = "replaced"
  /\ brStop = 1
  /\ ~stopping /\ isPc = "idle"

\* C21: wg.Done is called by the first onConnect and by no later one,
\* however often the websocket connects.
C21_StartupSignalOnce ==
  /\ [](wgCount <= 1)
  /\ [](wgDone <=> wgCount = 1)
  /\ [][(wsPc = "dialing" /\ wsPc' = "connected") =>
          wgCount' = (IF wgDone THEN wgCount ELSE 1)]_vars

\* C21 witness: a session has ended cleanly and the websocket is connected
\* again, with one wg.Done call made.
C21_Witness ==
  /\ wsPc = "connected"
  /\ lastErr = "nil"
  /\ wgCount = 1

\* C22 as claimed: every onConnect sends the last status passed to
\* SendBridgeStatus, or the default CONNECTED status when none was passed,
\* with any connector.
C22_Original ==
  [][(wsPc = "dialing" /\ wsPc' = "connected") =>
       statusSent' = (IF lastPassed # "nil" THEN lastPassed
                      ELSE BridgeStatusConnected)]_vars

\* C22 amended: onConnect sends the stored status when there is one (it is
\* stored only for a connector with the BridgeState capability, and then it
\* is the last one passed); with none stored it sends the default CONNECTED
\* status when the connector lacks the capability and nothing when it has
\* it.
C22_ConnectStatus ==
  /\ [](latestState = (IF bridgeStateCap THEN lastPassed ELSE "nil"))
  /\ [][(wsPc = "dialing" /\ wsPc' = "connected") =>
          statusSent' =
            (IF bridgeStateCap
               THEN (IF lastPassed # "nil" THEN lastPassed ELSE "nothing")
               ELSE BridgeStatusConnected)]_vars

\* C22 witness: after a reconnect the stored status has been sent again.
C22_Witness ==
  /\ wsPc = "connected"
  /\ lastErr = "nil"
  /\ statusSent \in Statuses
  /\ statusSent = latestState

\* C23: a failed ping of PingServer leaves the host process up and stops a
\* connected websocket with an error that is not the manual stop; a session
\* stopped that way ends in the loop's look at the stopping flag, and unless
\* the flag is set the loop goes through the backoff wait to a new attempt.
C23_PingFailureReconnects ==
  /\ [](host = "up")
  /\ [][(psPc = "request" /\ psPc' = "idle" /\ psResult' = "error") =>
          /\ (HasWebsocket /\ wsStopErr = "none") =>
               wsStopErr' \notin {"none", "manualstop", "replaced"}
          /\ wsPc' = wsPc /\ host' = host]_vars
  /\ [][(wsPc = "connected" /\ wsPc' # "connected"
           /\ wsStopErr \notin {"none", "manualstop"}) =>
          (wsPc' = "check1" /\ lastErr' = wsStopErr)]_vars
  /\ [][(wsPc = "check1" /\ ~stopping) => wsPc' \in {"check1", "sleep"}]_vars
  /\ [][wsPc = "sleep" => wsPc' \in {"sleep", "wait"}]_vars
  /\ [][wsPc = "wait" => wsPc' \in {"wait", "check2"}]_vars
  /\ [][(wsPc = "check2" /\ ~stopping) => wsPc' \in {"check2", "loop"}]_vars
  /\ [][wsPc = "loop" => wsPc' \in {"loop", "dialing"}]_vars

\* C23 witness: a ping failed, the session it stopped has ended with that
\* error, the loop has waited its backoff and is making a new attempt.
C23_Witness ==
  /\ psResult = "error"
  /\ wsStopErr = "other" /\ lastErr = "other"
  /\ wsPc = "dialing"
  /\ waited = reconnectBackoff
  /\ ~stopping

\* C24 as claimed: a PingServer call made without a websocket, while the
\* loop is in its backoff wait or in a connection attempt, goes on to wait
\* for a connection; it does not return before having waited.
C24_WaitsBeforeFailure ==
  [][(psPc = "idle" /\ wsPc \in {"wait", "dialing"}
        /\ (psPc' # "idle" \/ psResult' # psResult)) =>
       psPc' = "await"]_vars

Returns == {"ret-nil", "ret-value", "ret-error"}

\* C25: a handler that returns normally gets one reply written, with the
\* inbound id and with command "error" for an error result and "response"
\* for any other; only for id 0 with a nil result nothing is written. The
\* goroutine ends after that one write.
C25_NormalReply ==
  /\ [](\A h \in Slots : hs[h].pc = "run" =>
          \A o \in Returns : \A r \in CallHandler(o) :
            /\ ~r.crash /\ r.respond
            /\ RespondSkips(hs[h].id, r.kind)
                 <=> (hs[h].id = 0 /\ o = "ret-nil")
            /\ RespondCommand(r.kind) =
                 (IF o = "ret-error" THEN CommandError ELSE CommandResponse))
  /\ [](\A h \in Slots :
          (hs[h].pc = "encode" /\ hs[h].frame.why \in Returns) =>
            /\ hs[h].frame.id = hs[h].id
            /\ ~(hs[h].id = 0 /\ hs[h].frame.why = "ret-nil")
            /\ hs[h].frame.command =
                 (IF hs[h].frame.why = "ret-error" THEN CommandError
                                                   ELSE CommandResponse))
  /\ [][\A h \in Slots : hs[h].pc = "encode" =>
          (hs'[h] = hs[h] \/ hs'[h] = FreeSlot)]_vars

\* C25 witness: the "error" reply to an envelope with id 0 whose handler
\* returned an error is being written.
C25_Witness ==
  \E h \in Slots :
    /\ hs[h].pc = "encode"
    /\ hs[h].frame = Frame(CommandError, 0, "ret-error")

\* C26 as claimed: no "log" envelope of the child is ever answered with
\* "unknown command", because the handler is registered before the read
\* loop can look it up.
C26_HandlersBeforeLoop == ~logUnknown

\* C27 as claimed: once internalStop has set the stopping flag, the
\* reconnect loop eventually finishes and websocketStopped is closed.
C27_LoopFinishes == stopping ~> (wsPc = "finished" /\ websocketStopped)

\* C30: after internalStop has set the flag a started pinger eventually
\* returns, and it begins at most one PingServer call with the flag set.
C30_PingerReturns ==
  /\ [](pingsAfterFlag <= 1)
  /\ (stopping /\ pgPc # "none") ~> (pgPc = "returned")

\* C30 witness: the pinger has returned through its look at the flag, after
\* a PingServer call begun with the flag set; the stop signal had been
\* dropped.
C30_Witness ==
  /\ pgPc = "returned"
  /\ pingsAfterFlag = 1
  /\ isPc \notin {"idle", "stoppinger"}

\* C28: the loop never waits in the delivery of a reply: whatever reply
\* comes next, the loop handles it and is reading again, also while a
\* handler is still running and also for a caller that has given up; a
\* found waiter has the reply in its channel and is out of the table.
C28_LoopNeverBlocks ==
  /\ [](loopPc # "blocked")
  /\ [](loopPc = "read" =>
          \A cmd \in {CommandResponse, CommandError}, id \in ReplyIds :
            ENABLED (LoopReply(cmd, id) /\ loopPc' = "read"))
  /\ [][\A id \in DOMAIN waiters :
          (loopPc = "read" /\ id \notin DOMAIN waiters') =>
            \/ pc[waiters[id]] = "cleanup"
            \/ /\ loopPc' = "read"
               /\ Len(chan'[waiters[id]]) = 1
               /\ chan'[waiters[id]][1].id = id]_vars

\* C28 witness: the loop is reading again after it delivered the reply of a
\* caller that had given up, while a handler is still running.
C28_Witness ==
  /\ loopPc = "read"
  /\ \E h \in Slots : hs[h].pc = "run"
  /\ \E c \in Callers : pc[c] = "abandoned" /\ Len(chan[c]) = 1

\* C29: the loop never sends on a closed reply channel: no entry of the
\* waiter table leads to a closed channel, and a channel is closed with at
\* most the one reply that was delivered before.
C29_NoSendOnClosed ==
  /\ [](loopPc # "panicked")
  /\ [](\A id \in DOMAIN waiters : ~closed[waiters[id]])
  /\ [][\A c \in Callers : chan'[c] # chan[c] /\ Len(chan'[c]) > Len(chan[c])
          => (~closed[c] /\ ~closed'[c])]_vars
  /\ [](\A c \in Callers : closed[c] =>
          (rid[c] \notin DOMAIN waiters /\ Len(chan[c]) <= 1))

\* C29 witness: a request whose write failed has returned with its channel
\* closed, the reply with its id was delivered before the close, and the
\* loop is reading.
C29_Witness ==
  /\ loopPc = "read"
  /\ \E c \in Callers :
       /\ pc[c] = "failed" /\ closed[c]
       /\ Len(chan[c]) = 1 /\ chan[c][1].id = rid[c]

====
